---- MODULE Spec2Model ----
(***************************************************************************)
(* Model of populate_question_bank.py: the question-type and topic         *)
(* classifiers, the option parser and the loader loop of main().           *)
(*                                                                         *)
(* A Python str is a sequence of one-character strings, so that `in`,      *)
(* lower(), split("|") and strip() are computed character by character.    *)
(* A csv row is a function whose DOMAIN is the set of keys it carries.     *)
(* None is the empty tuple.                                                *)
(***************************************************************************)
EXTENDS Integers, Sequences, FiniteSets, TLC

VARIABLES
    rows,               \* questions_data: the rows read from the csv file
    idx,                \* number of rows of the loop completed
    pc,                 \* position of main()
    option_id_counter,  \* main's option_id_counter
    options,            \* parsed options of the row being processed
    display_order,      \* next position of the inner enumerate(options, 1)
    question_id,        \* main's local question_id of the row being processed
    questions,          \* table questions as the connection sees it
    response_options,   \* table response_options as the connection sees it
    committed,          \* the durable content of the two tables
    out,                \* the headings printed so far
    fnPc,               \* position of the function-level harness
    fnText,             \* question_text argument
    fnOpts,             \* response_options / options_str argument
    fnType,             \* result of classify_question_type
    fnTopic,            \* result of infer_topic
    fnParsed            \* result of parse_response_options

loaderVars == <<rows, idx, pc, option_id_counter, options, display_order,
                question_id, questions, response_options, committed, out>>
fnVars == <<fnPc, fnText, fnOpts, fnType, fnTopic, fnParsed>>
vars == <<rows, idx, pc, option_id_counter, options, display_order,
          question_id, questions, response_options, committed, out,
          fnPc, fnText, fnOpts, fnType, fnTopic, fnParsed>>

----------------------------------------------------------------------------
(* Bounds *)

MaxRows == 3
MaxFrags == 2
MaxOptFrags == 2

----------------------------------------------------------------------------
(* Python str primitives *)

None == <<>>

UpperToLower ==
    "A" :> "a" @@ "B" :> "b" @@ "C" :> "c" @@ "D" :> "d" @@ "E" :> "e" @@
    "F" :> "f" @@ "G" :> "g" @@ "H" :> "h" @@ "I" :> "i" @@ "J" :> "j" @@
    "K" :> "k" @@ "L" :> "l" @@ "M" :> "m" @@ "N" :> "n" @@ "O" :> "o" @@
    "P" :> "p" @@ "Q" :> "q" @@ "R" :> "r" @@ "S" :> "s" @@ "T" :> "t" @@
    "U" :> "u" @@ "V" :> "v" @@ "W" :> "w" @@ "X" :> "x" @@ "Y" :> "y" @@
    "Z" :> "z"

\* str.lower()
lower(s) ==
    [i \in 1..Len(s) |-> IF s[i] \in DOMAIN UpperToLower THEN UpperToLower[s[i]] ELSE s[i]]

\* the operator `sub in s` on str
Contains(s, sub) ==
    \E i \in 0..(Len(s) - Len(sub)) : SubSeq(s, i + 1, i + Len(sub)) = sub

\* the characters str.strip() removes
Whitespace == {" ", "\t", "\n", "\r"}

RECURSIVE lstrip(_)
lstrip(s) ==
    IF s # <<>> /\ Head(s) \in Whitespace THEN lstrip(Tail(s)) ELSE s

RECURSIVE rstrip(_)
rstrip(s) ==
    IF s # <<>> /\ s[Len(s)] \in Whitespace THEN rstrip(SubSeq(s, 1, Len(s) - 1)) ELSE s

\* str.strip()
strip(s) == rstrip(lstrip(s))

\* str.split(sep) for a one-character separator: always at least one segment
RECURSIVE split(_, _)
split(s, sep) ==
    IF \A i \in 1..Len(s) : s[i] # sep
    THEN <<s>>
    ELSE LET p == CHOOSE i \in 1..Len(s) :
                      s[i] = sep /\ \A j \in 1..(i - 1) : s[j] # sep
         IN  <<SubSeq(s, 1, p - 1)>> \o split(SubSeq(s, p + 1, Len(s)), sep)

DigitChars == <<"0", "1", "2", "3", "4", "5", "6", "7", "8", "9">>

IsDigit(c) == \E n \in 1..10 : DigitChars[n] = c

DigitVal(c) == (CHOOSE n \in 1..10 : DigitChars[n] = c) - 1

\* str(n) for an int n >= 0
RECURSIVE str(_)
str(n) ==
    IF n < 10 THEN <<DigitChars[n + 1]>>
    ELSE str(n \div 10) \o <<DigitChars[(n % 10) + 1]>>

\* int(s) for a str of decimal digits
RECURSIVE int(_)
int(s) ==
    IF s = <<>> THEN 0
    ELSE int(SubSeq(s, 1, Len(s) - 1)) * 10 + DigitVal(s[Len(s)])

----------------------------------------------------------------------------
(* String constants of the program *)

OPEN_ENDED == <<"[", "O", "p", "e", "n", "-", "e", "n", "d", "e", "d", " ", "r", "e", "s", "p", "o", "n", "s", "e", "]">>
NUMERIC_0_100 == <<"[", "N", "u", "m", "e", "r", "i", "c", " ", "s", "c", "a", "l", "e", " ", "0", "-", "1", "0", "0", "]">>
NUMERIC_MARKER == <<"[", "N", "u", "m", "e", "r", "i", "c", " ", "s", "c", "a", "l", "e">>

likert_patterns == <<
    <<"s", "u", "p", "p", "o", "r", "t", " ", "o", "r", " ", "o", "p", "p", "o", "s", "e">>,
    <<"a", "p", "p", "r", "o", "v", "e", " ", "o", "r", " ", "d", "i", "s", "a", "p", "p", "r", "o", "v", "e">>,
    <<"f", "a", "v", "o", "r", "a", "b", "l", "e", " ", "o", "r", " ", "u", "n", "f", "a", "v", "o", "r", "a", "b", "l", "e">>,
    <<"a", "g", "r", "e", "e", " ", "o", "r", " ", "d", "i", "s", "a", "g", "r", "e", "e">>,
    <<"p", "r", "i", "o", "r", "i", "t", "y">> >>

demographics_words == <<
    <<"g", "e", "n", "d", "e", "r">>, <<"e", "d", "u", "c", "a", "t", "i", "o", "n">>, <<"r", "a", "c", "e">>, <<"e", "t", "h", "n", "i", "c", "i", "t", "y">>, <<"e", "m", "p", "l", "o", "y", "m", "e", "n", "t">>, <<"r", "e", "l", "a", "t", "i", "o", "n", "s", "h", "i", "p">> >>

vote_words == <<
    <<"v", "o", "t", "e">>, <<"v", "o", "t", "i", "n", "g">>, <<"e", "l", "e", "c", "t", "i", "o", "n">>, <<"c", "a", "n", "d", "i", "d", "a", "t", "e">>, <<"d", "e", "m", "o", "c", "r", "a", "t">>, <<"r", "e", "p", "u", "b", "l", "i", "c", "a", "n">> >>

housing_words == <<
    <<"h", "o", "u", "s", "i", "n", "g">>, <<"h", "o", "m", "e">>, <<"r", "e", "n", "t">>, <<"z", "o", "n", "i", "n", "g">>, <<"d", "e", "v", "e", "l", "o", "p", "m", "e", "n", "t">>, <<"n", "e", "i", "g", "h", "b", "o", "r", "h", "o", "o", "d">> >>

\* any(word in text for word in words)
AnyWordIn(words, text) == \E k \in 1..Len(words) : Contains(text, words[k])

----------------------------------------------------------------------------
(* classify_question_type, infer_topic, parse_response_options *)

\* variant: the text rules are consulted before the two options-string rules
classify_question_type_TextFirst(question_text, resp_options) ==
    LET text_lower == lower(question_text) IN
    IF Contains(text_lower, <<"r", "a", "n", "k">>) /\ Contains(text_lower, <<"o", "r", "d", "e", "r">>) THEN 6
    ELSE IF resp_options = OPEN_ENDED THEN 4
    ELSE IF Contains(resp_options, NUMERIC_MARKER) THEN 5
    ELSE IF Contains(text_lower, <<"m", "e", "s", "s", "a", "g", "e", " ", "a">>) /\ Contains(text_lower, <<"m", "e", "s", "s", "a", "g", "e", " ", "b">>) THEN 7
    ELSE IF Contains(text_lower, <<"s", "e", "l", "e", "c", "t", " ", "a", "l", "l">>) \/ Contains(text_lower, <<"c", "h", "e", "c", "k", " ", "a", "l", "l">>) THEN 3
    ELSE IF AnyWordIn(likert_patterns, text_lower) THEN 1
    ELSE 2

\* variant: multiple_select is tested before ranking
classify_question_type_SelectFirst(question_text, resp_options) ==
    LET text_lower == lower(question_text) IN
    IF resp_options = OPEN_ENDED THEN 4
    ELSE IF Contains(resp_options, NUMERIC_MARKER) THEN 5
    ELSE IF Contains(text_lower, <<"s", "e", "l", "e", "c", "t", " ", "a", "l", "l">>) \/ Contains(text_lower, <<"c", "h", "e", "c", "k", " ", "a", "l", "l">>) THEN 3
    ELSE IF Contains(text_lower, <<"r", "a", "n", "k">>) /\ Contains(text_lower, <<"o", "r", "d", "e", "r">>) THEN 6
    ELSE IF Contains(text_lower, <<"m", "e", "s", "s", "a", "g", "e", " ", "a">>) /\ Contains(text_lower, <<"m", "e", "s", "s", "a", "g", "e", " ", "b">>) THEN 7
    ELSE IF AnyWordIn(likert_patterns, text_lower) THEN 1
    ELSE 2

classify_question_type(question_text, resp_options) ==
    LET text_lower == lower(question_text) IN
    IF resp_options = OPEN_ENDED THEN 4
    ELSE IF Contains(resp_options, NUMERIC_MARKER) THEN 5
    ELSE IF Contains(text_lower, <<"r", "a", "n", "k">>) /\ Contains(text_lower, <<"o", "r", "d", "e", "r">>) THEN 6
    ELSE IF Contains(text_lower, <<"m", "e", "s", "s", "a", "g", "e", " ", "a">>) /\ Contains(text_lower, <<"m", "e", "s", "s", "a", "g", "e", " ", "b">>) THEN 7
    ELSE IF Contains(text_lower, <<"s", "e", "l", "e", "c", "t", " ", "a", "l", "l">>) \/ Contains(text_lower, <<"c", "h", "e", "c", "k", " ", "a", "l", "l">>) THEN 3
    ELSE IF AnyWordIn(likert_patterns, text_lower) THEN 1
    ELSE 2

\* variant: the housing words are tested before the vote words
infer_topic_HousingFirst(question_text) ==
    LET text_lower == lower(question_text) IN
    IF AnyWordIn(demographics_words, text_lower) THEN 1
    ELSE IF AnyWordIn(housing_words, text_lower) THEN 4
    ELSE IF AnyWordIn(vote_words, text_lower) THEN 7
    ELSE 3

infer_topic(question_text) ==
    LET text_lower == lower(question_text) IN
    IF AnyWordIn(demographics_words, text_lower) THEN 1
    ELSE IF AnyWordIn(vote_words, text_lower) THEN 7
    ELSE IF AnyWordIn(housing_words, text_lower) THEN 4
    ELSE 3

\* variant: the segments are not stripped
parse_response_options_NoStrip(options_str) ==
    IF options_str \in {OPEN_ENDED, NUMERIC_0_100} THEN <<>>
    ELSE split(options_str, "|")

parse_response_options(options_str) ==
    IF options_str \in {OPEN_ENDED, NUMERIC_0_100} THEN <<>>
    ELSE LET segs == split(options_str, "|")
         IN  [k \in 1..Len(segs) |-> strip(segs[k])]

----------------------------------------------------------------------------
(* datetime.strptime(field_date, "%Y-%m-%d") *)

\* directive %m: 1[0-2]|0[1-9]|[1-9]
MatchMonth(s) ==
    \/ Len(s) = 2 /\ s[1] = "1" /\ s[2] \in {"0", "1", "2"}
    \/ Len(s) = 2 /\ s[1] = "0" /\ IsDigit(s[2]) /\ s[2] # "0"
    \/ Len(s) = 1 /\ IsDigit(s[1]) /\ s[1] # "0"

\* directive %d: 3[0-1]|[1-2]\d|0[1-9]|[1-9]| [1-9]
MatchDay(s) ==
    \/ Len(s) = 2 /\ s[1] = "3" /\ s[2] \in {"0", "1"}
    \/ Len(s) = 2 /\ s[1] \in {"1", "2"} /\ IsDigit(s[2])
    \/ Len(s) = 2 /\ s[1] \in {"0", " "} /\ IsDigit(s[2]) /\ s[2] # "0"
    \/ Len(s) = 1 /\ IsDigit(s[1]) /\ s[1] # "0"

IsLeap(y) == (y % 4 = 0) /\ ((y % 100 # 0) \/ (y % 400 = 0))

DaysInMonth(y, m) ==
    IF m = 2 THEN (IF IsLeap(y) THEN 29 ELSE 28)
    ELSE IF m \in {4, 6, 9, 11} THEN 30 ELSE 31

\* position of the first "-" of s, 0 when there is none
FirstHyphen(s) ==
    IF \E i \in 1..Len(s) : s[i] = "-"
    THEN CHOOSE i \in 1..Len(s) : s[i] = "-" /\ \A j \in 1..(i - 1) : s[j] # "-"
    ELSE 0

\* the fields %Y, %m, %d of s; <<>> when the format does not match all of s
strptime_fields(s) ==
    IF Len(s) < 8 THEN <<>>
    ELSE IF (\E i \in 1..4 : ~IsDigit(s[i])) \/ s[5] # "-" THEN <<>>
    ELSE LET rest == SubSeq(s, 6, Len(s))
             p == FirstHyphen(rest)
         IN  IF p = 0 THEN <<>>
             ELSE LET ms == SubSeq(rest, 1, p - 1)
                      ds == SubSeq(rest, p + 1, Len(rest))
                  IN  IF MatchMonth(ms) /\ MatchDay(ds)
                      THEN <<int(SubSeq(s, 1, 4)), int(ms), int(lstrip(ds))>>
                      ELSE <<>>

\* variant: the day is not checked against the length of the month
strptime_ok_NoCalendar(s) ==
    strptime_fields(s) # <<>>

\* strptime returns (TRUE) or raises ValueError (FALSE)
strptime_ok(s) ==
    LET f == strptime_fields(s) IN
    /\ f # <<>>
    /\ f[1] >= 1
    /\ f[3] <= DaysInMonth(f[1], f[2])

\* lines 129-132: the date, or None when field_date is falsy or strptime raises
field_date_obj(field_date) ==
    IF field_date = <<>> THEN None
    ELSE IF strptime_ok(field_date) THEN strptime_fields(field_date)
    ELSE None

----------------------------------------------------------------------------
(* Inputs *)

RECURSIVE Concat(_)
Concat(ss) == IF ss = <<>> THEN <<>> ELSE Head(ss) \o Concat(Tail(ss))

SeqsUpTo(S, n) == UNION {[1..k -> S] : k \in 0..n}

TextFrags == {
    <<"R", "a", "n", "k", " ", "i", "n", " ", "O", "R", "D", "E", "R", " ">>, <<"M", "e", "s", "s", "a", "g", "e", " ", "A", ",", " ", "m", "e", "s", "s", "a", "g", "e", " ", "b", " ">>, <<"S", "e", "l", "e", "c", "t", " ", "a", "l", "l", " ">>, <<"p", "r", "i", "o", "r", "i", "t", "y", " ">>,
    <<"g", "e", "n", "d", "e", "r", " ">>, <<"V", "o", "t", "e", " ">>, <<"h", "o", "m", "e", " ">>, <<"r", "a", "n", "k", " ">> }

OptFrags == { OPEN_ENDED, NUMERIC_0_100, <<"[", "N", "u", "m", "e", "r", "i", "c", " ", "s", "c", "a", "l", "e", " ", "1", "-", "1", "0", "]">>, <<"|">>, <<" ", "A">> }

Texts == {Concat(fs) : fs \in SeqsUpTo(TextFrags, MaxFrags)}

OptStrings == {Concat(fs) : fs \in SeqsUpTo(OptFrags, MaxOptFrags)}

\* csv rows: a key that is not in the DOMAIN is a column the file does not have
RowPool == {
    [question_id |-> <<"Q", "1">>, question_text |-> <<"W", "h", "a", "t", " ", "i", "s", " ", "y", "o", "u", "r", " ", "g", "e", "n", "d", "e", "r", "?">>,
     response_options |-> <<"M", "a", "l", "e", " ", "|", " ", "F", "e", "m", "a", "l", "e", " ", "|", "O", "t", "h", "e", "r">>, field_date |-> <<"2", "0", "2", "4", "-", "0", "3", "-", "1", "5">>],
    [question_id |-> <<"Q", "2">>, question_text |-> <<"D", "o", " ", "y", "o", "u", " ", "s", "u", "p", "p", "o", "r", "t", " ", "o", "r", " ", "o", "p", "p", "o", "s", "e", " ", "t", "h", "e", " ", "n", "e", "w", " ", "z", "o", "n", "i", "n", "g", " ", "l", "a", "w", "?">>,
     response_options |-> <<"S", "u", "p", "p", "o", "r", "t", "|", "O", "p", "p", "o", "s", "e">>, field_date |-> <<"2", "0", "2", "4", "-", "3", "-", "5">>],
    [question_id |-> <<"Q", "3">>, question_text |-> <<"T", "e", "l", "l", " ", "u", "s", " ", "m", "o", "r", "e">>,
     response_options |-> OPEN_ENDED, field_date |-> <<>>],
    [question_id |-> <<"Q", "4">>, question_text |-> <<"R", "a", "t", "e", " ", "t", "h", "e", " ", "c", "a", "n", "d", "i", "d", "a", "t", "e">>,
     response_options |-> NUMERIC_0_100, field_date |-> <<"2", "0", "2", "4", "-", "0", "2", "-", "3", "0">>],
    [question_id |-> <<"Q", "5">>, question_text |-> <<"R", "a", "n", "k", " ", "i", "n", " ", "o", "r", "d", "e", "r">>,
     response_options |-> <<" ", "A", " ", "|", "|", "\t", "B", " ">>],
    [question_text |-> <<"H", "o", "m", "e">>,
     response_options |-> <<"Y", "e", "s", "|", "N", "o">>, field_date |-> <<"2", "0", "2", "4", "-", "0", "3", "-", "1", "5">>],
    [question_id |-> <<"Q", "7">>,
     response_options |-> <<"Y", "e", "s", "|", "N", "o">>, field_date |-> <<"2", "0", "2", "4", "-", "0", "3", "-", "1", "5">>],
    [question_id |-> <<"Q", "8">>, question_text |-> <<"C", "h", "e", "c", "k", " ", "a", "l", "l", " ", "t", "h", "a", "t", " ", "a", "p", "p", "l", "y">>,
     field_date |-> <<"2", "0", "2", "4", "-", "0", "3", "-", "1", "5">>],
    [question_id |-> <<"Q", "9">>, question_text |-> <<"R", "a", "t", "e">>,
     response_options |-> <<"[", "N", "u", "m", "e", "r", "i", "c", " ", "s", "c", "a", "l", "e", " ", "1", "-", "1", "0", "]">>, field_date |-> <<"0", "3", "/", "1", "5", "/", "2", "0", "2", "4">>],
    [question_id |-> <<"1", "0">>, question_text |-> <<"T", "o", "p", " ", "p", "r", "i", "o", "r", "i", "t", "y", "?">>,
     response_options |-> <<>>, field_date |-> <<"2", "0", "2", "3", "-", "0", "2", "-", "2", "9">>] }

Inputs == {s \in SeqsUpTo(RowPool, MaxRows) :
              \A i, j \in 1..Len(s) : i # j => s[i] # s[j]}

RequiredKeys == {"question_id", "question_text", "response_options"}

EmptyStore == [questions |-> <<>>, response_options |-> <<>>]

----------------------------------------------------------------------------
(* main(): the loader loop, the commit and the report *)

FnOff ==
    /\ fnPc = "off" /\ fnText = <<>> /\ fnOpts = <<>>
    /\ fnType = 0 /\ fnTopic = 0 /\ fnParsed = <<>>

\* the state of main() on entering the loop of line 118
Init ==
    /\ rows \in Inputs
    /\ idx = 0
    /\ pc = "loop"
    /\ option_id_counter = 1000
    /\ options = <<>>
    /\ display_order = 1
    /\ question_id = None
    /\ questions = <<>>
    /\ response_options = <<>>
    /\ committed = EmptyStore
    /\ out = <<"Creating database schema...", "Loading questions", "Found questions">>
    /\ FnOff

\* line 168
NextOptionId_Stuck(c) == c

NextOptionId(c) == c + 1

\* row.get("field_date", "")
GetFieldDate(row) ==
    IF "field_date" \in DOMAIN row THEN row.field_date ELSE <<>>

\* the parameters of the INSERT INTO questions of lines 135-147
QuestionRecord(row) ==
    LET d == field_date_obj(GetFieldDate(row)) IN
    [question_id |-> row.question_id,
     question_text |-> row.question_text,
     question_type_id |-> classify_question_type(row.question_text, row.response_options),
     topic_id |-> infer_topic(row.question_text),
     created_date |-> d,
     last_used_date |-> d,
     times_used |-> 0,
     is_active |-> 1,
     version |-> 1]

\* lines 119-150 of an iteration: read the row, classify, insert the question
InsertQuestion ==
    /\ pc = "loop"
    /\ idx < Len(rows)
    /\ RequiredKeys \subseteq DOMAIN rows[idx + 1]
    /\ LET row == rows[idx + 1] IN
       /\ question_id' = row.question_id
       /\ questions' = Append(questions, QuestionRecord(row))
       /\ options' = parse_response_options(row.response_options)
    /\ display_order' = 1
    /\ pc' = "options"
    /\ UNCHANGED <<rows, idx, option_id_counter, response_options, committed, out>>
    /\ UNCHANGED fnVars

\* variant: a row without a required key is skipped
RowKeyError_Skip ==
    /\ pc = "loop"
    /\ idx < Len(rows)
    /\ ~(RequiredKeys \subseteq DOMAIN rows[idx + 1])
    /\ idx' = idx + 1
    /\ UNCHANGED <<rows, pc, option_id_counter, options, display_order, question_id,
                   questions, response_options, committed, out>>
    /\ UNCHANGED fnVars

\* lines 119-121: row[key] raises KeyError, main() dies with the traceback and
\* the open transaction is never committed
RowKeyError ==
    /\ pc = "loop"
    /\ idx < Len(rows)
    /\ ~(RequiredKeys \subseteq DOMAIN rows[idx + 1])
    /\ pc' = "failed"
    /\ questions' = committed.questions
    /\ response_options' = committed.response_options
    /\ out' = Append(out, "Traceback")
    /\ UNCHANGED <<rows, idx, option_id_counter, options, display_order, question_id, committed>>
    /\ UNCHANGED fnVars

\* variant: empty option texts are not inserted
InsertOption_SkipEmpty ==
    /\ pc = "options"
    /\ display_order <= Len(options)
    /\ response_options' =
          IF options[display_order] = <<>> THEN response_options
          ELSE Append(response_options,
                 [option_id |-> option_id_counter,
                  question_id |-> question_id,
                  option_text |-> options[display_order],
                  option_value |-> str(display_order),
                  display_order |-> display_order])
    /\ option_id_counter' = NextOptionId(option_id_counter)
    /\ display_order' = display_order + 1
    /\ UNCHANGED <<rows, idx, pc, options, question_id, questions, committed, out>>
    /\ UNCHANGED fnVars

\* lines 152-168: one iteration of the loop over enumerate(options, 1)
InsertOption ==
    /\ pc = "options"
    /\ display_order <= Len(options)
    /\ response_options' =
          Append(response_options,
                 [option_id |-> option_id_counter,
                  question_id |-> question_id,
                  option_text |-> options[display_order],
                  option_value |-> str(display_order),
                  display_order |-> display_order])
    /\ option_id_counter' = NextOptionId(option_id_counter)
    /\ display_order' = display_order + 1
    /\ UNCHANGED <<rows, idx, pc, options, question_id, questions, committed, out>>
    /\ UNCHANGED fnVars

\* variant: the transaction is committed at the end of every row
EndRow_CommitEach ==
    /\ pc = "options"
    /\ display_order > Len(options)
    /\ idx' = idx + 1
    /\ out' = IF (idx + 1) % 10 = 0 THEN Append(out, "Processed questions") ELSE out
    /\ committed' = [questions |-> questions, response_options |-> response_options]
    /\ pc' = "loop"
    /\ UNCHANGED <<rows, option_id_counter, options, display_order, question_id,
                   questions, response_options>>
    /\ UNCHANGED fnVars

\* lines 170-171: the options are exhausted, the iteration ends
EndRow ==
    /\ pc = "options"
    /\ display_order > Len(options)
    /\ idx' = idx + 1
    /\ out' = IF (idx + 1) % 10 = 0 THEN Append(out, "Processed questions") ELSE out
    /\ pc' = "loop"
    /\ UNCHANGED <<rows, option_id_counter, options, display_order, question_id,
                   questions, response_options, committed>>
    /\ UNCHANGED fnVars

\* line 173: conn.commit() after the last row
Commit ==
    /\ pc = "loop"
    /\ idx = Len(rows)
    /\ committed' = [questions |-> questions, response_options |-> response_options]
    /\ pc' = "report"
    /\ UNCHANGED <<rows, idx, option_id_counter, options, display_order, question_id,
                   questions, response_options, out>>
    /\ UNCHANGED fnVars

\* lines 175-247: the summary, the example queries, conn.close()
Report ==
    /\ pc = "report"
    /\ out' = out \o <<"===== DATABASE SUMMARY =====", "===== EXAMPLE QUERIES =====",
                       "===== SUCCESS =====">>
    /\ pc' = "done"
    /\ UNCHANGED <<rows, idx, option_id_counter, options, display_order, question_id,
                   questions, response_options, committed>>
    /\ UNCHANGED fnVars

Next ==
    \/ InsertQuestion
    \/ RowKeyError
    \/ InsertOption
    \/ EndRow
    \/ Commit
    \/ Report

Spec == Init /\ [][Next]_vars

----------------------------------------------------------------------------
(* The three functions applied to one (question_text, response_options) pair, *)
(* in the order main() calls them                                             *)

InitFn ==
    /\ rows = <<>>
    /\ idx = 0
    /\ pc = "idle"
    /\ option_id_counter = 1000
    /\ options = <<>>
    /\ display_order = 1
    /\ question_id = None
    /\ questions = <<>>
    /\ response_options = <<>>
    /\ committed = EmptyStore
    /\ out = <<>>
    /\ fnPc = "classify"
    /\ fnText \in Texts
    /\ fnOpts \in OptStrings
    /\ fnType = 0
    /\ fnTopic = 0
    /\ fnParsed = <<>>

\* line 125
FnClassify ==
    /\ fnPc = "classify"
    /\ fnType' = classify_question_type(fnText, fnOpts)
    /\ fnPc' = "topic"
    /\ UNCHANGED <<fnText, fnOpts, fnTopic, fnParsed>>
    /\ UNCHANGED loaderVars

\* line 126
FnTopic ==
    /\ fnPc = "topic"
    /\ fnTopic' = infer_topic(fnText)
    /\ fnPc' = "parse"
    /\ UNCHANGED <<fnText, fnOpts, fnType, fnParsed>>
    /\ UNCHANGED loaderVars

\* line 150
FnParse ==
    /\ fnPc = "parse"
    /\ fnParsed' = parse_response_options(fnOpts)
    /\ fnPc' = "done"
    /\ UNCHANGED <<fnText, fnOpts, fnType, fnTopic>>
    /\ UNCHANGED loaderVars

NextFn ==
    \/ FnClassify
    \/ FnTopic
    \/ FnParse

SpecFn == InitFn /\ [][NextFn]_vars

----------------------------------------------------------------------------
(* Properties *)

Sentinels == {OPEN_ENDED, NUMERIC_0_100}

Loaded == pc \in {"report", "done"}

SummaryPrinted == \E n \in 1..Len(out) : out[n] = "===== DATABASE SUMMARY ====="

FatalRow(row) == ~(RequiredKeys \subseteq DOMAIN row)

\* the records of table t that belong to question qid, in insertion order
OptionsOf(t, qid) ==
    LET Owned(o) == o.question_id = qid IN SelectSeq(t, Owned)

\* number of occurrences of character c in s
RECURSIVE CountChar(_, _)
CountChar(s, c) ==
    IF s = <<>> THEN 0
    ELSE (IF Head(s) = c THEN 1 ELSE 0) + CountChar(Tail(s), c)

RECURSIVE SumParsed(_)
SumParsed(n) ==
    IF n = 0 THEN 0
    ELSE SumParsed(n - 1) + Len(parse_response_options(rows[n].response_options))

\* C1: after a load without a fatal error the committed store holds exactly
\* one question record per input row, in input order and with the row's
\* question_id unchanged, and exactly sum(k_i) response-option records, k_i
\* being the length of the parsed option sequence of row i.
C1_RecordCounts ==
    Loaded =>
        /\ Len(committed.questions) = Len(rows)
        /\ \A i \in 1..Len(rows) :
              committed.questions[i].question_id = rows[i].question_id
        /\ Len(committed.response_options) = SumParsed(Len(rows))

C1_Witness ==
    /\ pc = "done"
    /\ Len(rows) >= 2
    /\ \E i \in 1..Len(rows) : rows[i].response_options \in Sentinels
    /\ \E i \in 1..Len(rows) :
          \E k \in 1..Len(parse_response_options(rows[i].response_options)) :
              parse_response_options(rows[i].response_options)[k] = <<>>
    /\ Len(committed.response_options) >= 3

\* index of the input row that carries question_id qid
RowOf(qid) ==
    CHOOSE i \in 1..Len(rows) :
        "question_id" \in DOMAIN rows[i] /\ rows[i].question_id = qid

\* C2: at every point of a load the option_id values written so far are all
\* >= 1000, strictly increasing in insertion order (hence distinct), smaller
\* for an earlier input row than for a later one, and the counter stands at
\* 1000 plus the number of options written: it is never reset or decreased.
C2_OptionIds ==
    pc # "failed" =>
        /\ \A a \in 1..Len(response_options) : response_options[a].option_id >= 1000
        /\ \A a, b \in 1..Len(response_options) :
              a < b => response_options[a].option_id < response_options[b].option_id
        /\ \A a, b \in 1..Len(response_options) :
              RowOf(response_options[a].question_id) < RowOf(response_options[b].question_id)
                  => response_options[a].option_id < response_options[b].option_id
        /\ \A a \in 1..Len(response_options) :
              response_options[a].option_id < option_id_counter
        /\ option_id_counter = 1000 + Len(response_options)

C2_Witness ==
    /\ pc = "options"
    /\ idx >= 1
    /\ display_order >= 2
    /\ \E a, b \in 1..Len(response_options) :
          response_options[a].question_id # response_options[b].question_id

\* the rows whose iteration is complete and whose records the connection holds
DoneRows == IF pc = "failed" THEN {} ELSE 1..idx

\* C3: for every loaded question whose options string is not a sentinel, the
\* number of its response-option records is the number of "|" of the string
\* plus one, the k-th record has display_order k, option_text the stripped
\* k-th segment and option_value the decimal text of k.
C3_OptionsOfQuestion ==
    \A i \in DoneRows :
        LET raw == rows[i].response_options
            recs == OptionsOf(response_options, rows[i].question_id)
            segs == split(raw, "|")
        IN  raw \notin Sentinels =>
               /\ Len(recs) = CountChar(raw, "|") + 1
               /\ Len(segs) = Len(recs)
               /\ \A k \in 1..Len(recs) :
                     /\ recs[k].display_order = k
                     /\ recs[k].option_text = strip(segs[k])
                     /\ recs[k].option_text = <<>> \/
                           /\ Head(recs[k].option_text) \notin Whitespace
                           /\ recs[k].option_text[Len(recs[k].option_text)] \notin Whitespace
                     /\ \A n \in 1..Len(recs[k].option_value) : IsDigit(recs[k].option_value[n])
                     /\ Head(recs[k].option_value) # "0"
                     /\ int(recs[k].option_value) = k

C3_Witness ==
    /\ pc = "done"
    /\ \E i \in 1..Len(rows) :
          /\ CountChar(rows[i].response_options, "|") = 2
          /\ \E k \in 1..3 :
                /\ split(rows[i].response_options, "|")[k] = <<>>
                /\ OptionsOf(committed.response_options, rows[i].question_id)[k].option_text = <<>>
          /\ \E k \in 1..3 :
                LET seg == split(rows[i].response_options, "|")[k] IN
                /\ strip(seg) # seg
                /\ strip(seg) # <<>>
                /\ OptionsOf(committed.response_options, rows[i].question_id)[k].option_text = strip(seg)

UnparsableDates == { <<"2", "0", "2", "4", "-", "0", "2", "-", "3", "0">>, <<"0", "3", "/", "1", "5", "/", "2", "0", "2", "4">>, <<"2", "0", "2", "3", "-", "0", "2", "-", "2", "9">> }

DateUnset(row) ==
    \/ "field_date" \notin DOMAIN row
    \/ row.field_date = <<>>
    \/ row.field_date \in UnparsableDates

\* C5: a row whose field_date is absent, empty or unparsable is loaded with
\* created_date and last_used_date both null and with all its options, the
\* load goes on (an abort is only ever due to a missing required key), and
\* created_date equals last_used_date in every question record.
C5_DateRecovered ==
    /\ pc # "failed" =>
          \A i \in 1..Len(questions) :
             /\ questions[i].created_date = questions[i].last_used_date
             /\ DateUnset(rows[i]) =>
                   /\ questions[i].question_id = rows[i].question_id
                   /\ questions[i].created_date = None
                   /\ questions[i].last_used_date = None
                   /\ i \in DoneRows =>
                         Len(OptionsOf(response_options, rows[i].question_id))
                            = CountChar(rows[i].response_options, "|")
                              + (IF rows[i].response_options \in Sentinels THEN 0 ELSE 1)
    /\ pc = "failed" => FatalRow(rows[idx + 1])
    /\ Loaded =>
          /\ Len(committed.questions) = Len(rows)
          /\ \A i \in 1..Len(rows) :
                committed.questions[i].created_date = committed.questions[i].last_used_date

C5_Witness ==
    /\ pc = "done"
    /\ Len(rows) >= 3
    /\ "field_date" \in DOMAIN rows[1]
    /\ rows[1].field_date \in UnparsableDates
    /\ committed.questions[1].created_date = None
    /\ "field_date" \notin DOMAIN rows[2]
    /\ committed.questions[2].last_used_date = None
    /\ Len(OptionsOf(committed.response_options, rows[2].question_id)) = 3
    /\ committed.questions[3].created_date = <<2024, 3, 15>>

\* C6: whatever the question text, the options string "[Open-ended response]"
\* gives type 4 and no options, and "[Numeric scale 0-100]" gives type 5 and
\* no options.
C6_Sentinels ==
    fnPc = "done" =>
        /\ fnOpts = OPEN_ENDED => fnType = 4 /\ fnParsed = <<>>
        /\ fnOpts = NUMERIC_0_100 => fnType = 5 /\ fnParsed = <<>>

C6_Witness ==
    /\ fnPc = "done"
    /\ fnOpts = NUMERIC_0_100
    /\ Contains(lower(fnText), <<"r", "a", "n", "k">>)
    /\ Contains(lower(fnText), <<"o", "r", "d", "e", "r">>)
    /\ fnType = 5
    /\ fnParsed = <<>>

RankAndOrder(text) ==
    Contains(lower(text), <<"r", "a", "n", "k">>) /\ Contains(lower(text), <<"o", "r", "d", "e", "r">>)

\* a keyword of one of the rules that follow the ranking rule
LaterKeyword(text) ==
    \/ Contains(lower(text), <<"m", "e", "s", "s", "a", "g", "e", " ", "a">>) /\ Contains(lower(text), <<"m", "e", "s", "s", "a", "g", "e", " ", "b">>)
    \/ Contains(lower(text), <<"s", "e", "l", "e", "c", "t", " ", "a", "l", "l">>)
    \/ Contains(lower(text), <<"p", "r", "i", "o", "r", "i", "t", "y">>)

\* C7 as stated: every text containing both "rank" and "order" is classified
\* ranking (6).
C7_AsStated ==
    (fnPc = "done" /\ RankAndOrder(fnText)) => fnType = 6

\* C7: every text containing both "rank" and "order" (any case) is classified
\* ranking (6) whatever later keyword it also contains, provided the options
\* string is not "[Open-ended response]" and does not contain "[Numeric scale".
C7_Ranking ==
    (/\ fnPc = "done"
     /\ RankAndOrder(fnText)
     /\ fnOpts # OPEN_ENDED
     /\ ~Contains(fnOpts, NUMERIC_MARKER)) => fnType = 6

C7_Witness ==
    /\ fnPc = "done"
    /\ RankAndOrder(fnText)
    /\ Contains(fnText, <<"O", "R", "D", "E", "R">>)
    /\ LaterKeyword(fnText)
    /\ fnOpts # OPEN_ENDED
    /\ ~Contains(fnOpts, NUMERIC_MARKER)
    /\ fnType = 6

\* C8: infer_topic is total and first-match-wins: 1 iff the lowercased text
\* contains a demographics word, else 7 iff it contains a vote word, else 4
\* iff it contains a housing word, else 3; no other value is returned.
C8_Topic ==
    fnPc \in {"parse", "done"} =>
        LET t == lower(fnText)
            demo == \E k \in 1..Len(demographics_words) : Contains(t, demographics_words[k])
            vote == \E k \in 1..Len(vote_words) : Contains(t, vote_words[k])
            house == \E k \in 1..Len(housing_words) : Contains(t, housing_words[k])
        IN  /\ fnTopic \in {1, 7, 4, 3}
            /\ (fnTopic = 1) <=> demo
            /\ (fnTopic = 7) <=> (~demo /\ vote)
            /\ (fnTopic = 4) <=> (~demo /\ ~vote /\ house)
            /\ (fnTopic = 3) <=> (~demo /\ ~vote /\ ~house)

C8_Witness ==
    /\ fnPc = "done"
    /\ Contains(fnText, <<"V", "o", "t", "e">>)
    /\ Contains(fnText, <<"h", "o", "m", "e">>)
    /\ fnTopic = 7

\* C9: the summary is printed only after every row has been processed and the
\* transaction committed; a run whose input has a row without a required key
\* never commits and never prints the summary, and a failed run has printed
\* none.
C9_ReportAfterLoad ==
    /\ (pc = "done" \/ SummaryPrinted) =>
          /\ pc = "done"
          /\ SummaryPrinted
          /\ idx = Len(rows)
          /\ Len(questions) = Len(rows)
          /\ committed = [questions |-> questions, response_options |-> response_options]
    /\ pc = "report" => idx = Len(rows) /\ ~SummaryPrinted
    /\ pc = "failed" => ~SummaryPrinted /\ idx < Len(rows) /\ FatalRow(rows[idx + 1])
    /\ (\E i \in 1..Len(rows) : FatalRow(rows[i])) => ~SummaryPrinted /\ ~Loaded

C9_Witness ==
    /\ pc = "done"
    /\ SummaryPrinted
    /\ Len(rows) >= 2
    /\ Len(committed.response_options) >= 2

\* C10: after a successful load every question record of type open_ended (4)
\* or numeric_scale (5) has no response-option record.
C10_NoOptionsForOpenOrNumeric ==
    Loaded =>
        \A i \in 1..Len(committed.questions) :
            committed.questions[i].question_type_id \in {4, 5} =>
                OptionsOf(committed.response_options,
                          committed.questions[i].question_id) = <<>>

====
